---- MODULE Spec2Model ----
(***************************************************************************)
(* Model of the `vm` vagrant wrapper: the Vm registry of src/src/lib.rs    *)
(* and the command dispatcher run / run_vagrant of src/src/main/vm.rs.     *)
(*                                                                         *)
(* One process invocation (main -> run -> run_vagrant) is one action.      *)
(* The library operations Vm::add / Vm::remove / Config::save_to_file on a *)
(* live Vm object are actions of their own.                                *)
(*                                                                         *)
(* Spec explores the registry and the forwarding requests; SpecBackup      *)
(* explores the backup request, which alone reads the clock and creates    *)
(* files other than the registry file.                                     *)
(*                                                                         *)
(* Not modelled: the FindVagrantfiles request (it changes no state), the   *)
(* option vector handed to the external process, and failures of file      *)
(* input and output other than a missing file or directory.                *)
(***************************************************************************)
EXTENDS Integers, Sequences, FiniteSets, TLC

\* ---------------------------------------------------------------- bounds
MaxDay == 2      \* days of the month the clock can show
MaxHms == 1      \* distinct hour-minute-second values the clock can show
MaxInput == 2    \* bytes held by the standard input stream
MaxCode == 2     \* largest exit code of the external process
MaxBackups == 1  \* backup files kept on disk

\* ------------------------------------------------------ program constants
LowerY == 121        \* b'y'
AsciiUpperA == 65
AsciiUpperZ == 90
AsciiLowerA == 97
AsciiLowerZ == 122
AsciiCaseBit == 32
ExitOk == 0          \* Ok(0) of run_vagrant
ExitNotFound == 1    \* Ok(1) of the Raw arm
ExitFailure == 1     \* exit status of a main that returns Err
NoCodeFallback == 0  \* .code().unwrap_or(0)
ExitUsage == 2       \* the Err arm of main

\* ------------------------------------------------------------ input sets
\* VM names are Strings, modelled as byte sequences: "ab" and "b".
Names == { <<97, 98>>, <<98>> }

\* A path is a component list, absolute (rooted) or relative.
AbsW == [abs |-> TRUE, comps |-> <<"w">>]
RelW == [abs |-> FALSE, comps |-> <<"w">>]
Paths == { AbsW, RelW }

\* Directories that exist, as absolute component lists.
ConfigDir == <<"cfg">>
ExistingDirs == { <<"cfg">>, <<"w">>, <<"w", "w">> }

\* Directories the invoking shell starts the program in.
LaunchDirs == { <<"cfg">>, <<"w">> }

\* Bytes the input stream can hold: 'Y', 'n', 'y'.
Bytes == { 89, 110, 121 }

RECURSIVE SeqsUpTo(_, _)
SeqsUpTo(S, n) ==
    IF n = 0 THEN { <<>> }
    ELSE LET shorter == SeqsUpTo(S, n - 1)
         IN shorter \cup { Append(s, x) : s \in { t \in shorter : Len(t) = n - 1 }, x \in S }

Streams == SeqsUpTo(Bytes, MaxInput)

\* Local time within one year: the month, the day and the time of day.
Months == { 11 }
Times == [month : Months, day : 1..MaxDay, hms : 0..MaxHms]

TimeLeq(s, t) ==
    \/ s.month < t.month
    \/ s.month = t.month /\ s.day < t.day
    \/ s.month = t.month /\ s.day = t.day /\ s.hms <= t.hms

\* Termination status of the external process: an exit code, or none
\* (terminated by a signal); or the process could not be started.
ChildOutcomes ==
    { [kind |-> "exited", code |-> c] : c \in 0..MaxCode }
      \cup { [kind |-> "signaled"], [kind |-> "spawn_error"] }

\* ---------------------------------------------------------------- Option
None == [some |-> FALSE]
Some(x) == [some |-> TRUE, val |-> x]

\* --------------------------------------------------------- String ordering
\* Ord for String: bytewise lexicographic.
RECURSIVE StrLess(_, _)
StrLess(s, t) ==
    IF t = <<>> THEN FALSE
    ELSE IF s = <<>> THEN TRUE
    ELSE IF Head(s) < Head(t) THEN TRUE
    ELSE IF Head(s) > Head(t) THEN FALSE
    ELSE StrLess(Tail(s), Tail(t))

\* ---------------------------------------------------------------- BTreeMap
\* A BTreeMap<String, Info> is the sequence of its (key, value) pairs in
\* ascending key order.
RECURSIVE btree_position(_, _, _)
btree_position(m, k, i) ==
    IF i > Len(m) THEN i
    ELSE IF StrLess(m[i].key, k) THEN btree_position(m, k, i + 1)
    ELSE i

btree_get(m, k) ==
    LET i == btree_position(m, k, 1)
    IN IF i <= Len(m) /\ m[i].key = k THEN Some(m[i].value) ELSE None

\* Variant: a new key goes to the end of the sequence.
btree_insert_append(m, k, v) ==
    LET i == btree_position(m, k, 1)
        e == [key |-> k, value |-> v]
    IN IF i <= Len(m) /\ m[i].key = k
       THEN [map |-> [m EXCEPT ![i] = e], old |-> Some(m[i].value)]
       ELSE [map |-> Append(m, e), old |-> None]

btree_insert(m, k, v) ==
    LET i == btree_position(m, k, 1)
        e == [key |-> k, value |-> v]
    IN IF i <= Len(m) /\ m[i].key = k
       THEN [map |-> [m EXCEPT ![i] = e], old |-> Some(m[i].value)]
       ELSE [map |-> SubSeq(m, 1, i - 1) \o <<e>> \o SubSeq(m, i, Len(m)),
             old |-> None]

\* Variant: the pair at the search position goes, whatever its key.
btree_remove_unchecked(m, k) ==
    LET i == btree_position(m, k, 1)
    IN IF i <= Len(m)
       THEN [map |-> SubSeq(m, 1, i - 1) \o SubSeq(m, i + 1, Len(m)),
             old |-> IF m[i].key = k THEN Some(m[i].value) ELSE None]
       ELSE [map |-> m, old |-> None]

btree_remove(m, k) ==
    LET i == btree_position(m, k, 1)
    IN IF i <= Len(m) /\ m[i].key = k
       THEN [map |-> SubSeq(m, 1, i - 1) \o SubSeq(m, i + 1, Len(m)),
             old |-> Some(m[i].value)]
       ELSE [map |-> m, old |-> None]

btree_values(m) == [i \in 1..Len(m) |-> m[i].value]

\* -------------------------------------------------------------------- Vm
\* Variant: an existing entry is kept instead of replaced.
add_keep_existing(vm_list, name, path) ==
    LET info == [name |-> name, path |-> path]
        held == btree_get(vm_list, info.name)
    IN IF held.some THEN [map |-> vm_list, old |-> held]
       ELSE btree_insert(vm_list, info.name, info)

\* Vm::add
add(vm_list, name, path) ==
    LET info == [name |-> name, path |-> path]
    IN btree_insert(vm_list, info.name, info)

\* Vm::remove
remove(vm_list, name) == btree_remove(vm_list, name)

\* Vm::get_info
get_info(vm_list, name) == btree_get(vm_list, name)

\* Vm::list
list(vm_list) == btree_values(vm_list)

\* ---------------------------------------------------------------- Config
DefaultVagrantPath == "vagrant"

DefaultConfig == [vagrant_path |-> DefaultVagrantPath, vm_list |-> <<>>]

\* toml::to_string_pretty: the document holds the tool path and one table
\* per map key, each with the name and path fields of its Info.
to_toml(config) ==
    [vagrant_path |-> config.vagrant_path,
     vm_list |-> { [key |-> config.vm_list[i].key,
                    name |-> config.vm_list[i].value.name,
                    path |-> config.vm_list[i].value.path]
                   : i \in 1..Len(config.vm_list) }]

RECURSIVE from_tables(_)
from_tables(tables) ==
    IF tables = {} THEN <<>>
    ELSE LET t == CHOOSE x \in tables : TRUE
         IN btree_insert(from_tables(tables \ {t}), t.key,
                         [name |-> t.name, path |-> t.path]).map

\* toml::from_slice
from_toml(doc) ==
    [vagrant_path |-> doc.vagrant_path, vm_list |-> from_tables(doc.vm_list)]

\* ------------------------------------------------------------ file system
ConfigFileName == <<"config.toml">>

\* config_file_path(): config_dir().join("config.toml")
config_file_path == [dir |-> ConfigDir, name |-> ConfigFileName]

Exists(fs, p) == p \in DOMAIN fs

WriteFile(fs, p, content) ==
    [q \in (DOMAIN fs) \cup {p} |-> IF q = p THEN content ELSE fs[q]]

\* Config::from_file
from_file(fs, p) ==
    IF Exists(fs, p) THEN from_toml(fs[p]) ELSE DefaultConfig

\* Config::save_to_file
save_to_file(config, fs, p) == WriteFile(fs, p, to_toml(config))

\* A path handed to the operating system: a relative one is resolved
\* against the working directory.
Resolve(wd, path) == IF path.abs THEN path.comps ELSE wd \o path.comps

\* ------------------------------------------------------------------ state
VARIABLES
    config,      \* Vm.config of the live Vm object
    files,       \* the files on disk: file path -> content
    launch_dir,  \* working directory the program is started in
    cwd,         \* working directory of the process
    now,         \* the local clock
    last         \* the last operation: its arguments and what it did

vars == <<config, files, launch_dir, cwd, now, last>>

StartTime == [month |-> 11, day |-> 1, hms |-> 0]

Init ==
    /\ config = DefaultConfig
    /\ files = << >>
    /\ launch_dir \in LaunchDirs
    /\ cwd = launch_dir
    /\ now = StartTime
    /\ last = [op |-> "new"]

\* ------------------------------------------------------- library operations
VmAdd(name, path) ==
    LET r == add(config.vm_list, name, path)
    IN /\ config' = [config EXCEPT !.vm_list = r.map]
       /\ last' = [op |-> "Vm::add", name |-> name, path |-> path, ret |-> r.old]
       /\ UNCHANGED <<files, launch_dir, cwd, now>>

VmRemove(name) ==
    LET r == remove(config.vm_list, name)
    IN /\ config' = [config EXCEPT !.vm_list = r.map]
       /\ last' = [op |-> "Vm::remove", name |-> name, ret |-> r.old]
       /\ UNCHANGED <<files, launch_dir, cwd, now>>

VmSave ==
    /\ files' = save_to_file(config, files, config_file_path)
    /\ last' = [op |-> "save_to_file"]
    /\ UNCHANGED <<config, launch_dir, cwd, now>>

\* ------------------------------------------------------------- dispatcher
\* u8::is_ascii_alphabetic
is_ascii_alphabetic(b) ==
    \/ (AsciiUpperA <= b /\ b <= AsciiUpperZ)
    \/ (AsciiLowerA <= b /\ b <= AsciiLowerZ)

\* u8::to_ascii_lowercase
to_ascii_lowercase(b) ==
    IF AsciiUpperA <= b /\ b <= AsciiUpperZ THEN b + AsciiCaseBit ELSE b

\* Variant: the answer is compared without folding its case.
does_remove_case_sensitive(byte) == is_ascii_alphabetic(byte) /\ byte = LowerY

\* The answer test of the Remove arm.
does_remove(byte) == is_ascii_alphabetic(byte) /\ to_ascii_lowercase(byte) = LowerY

\* run(): load the registry, build the Vm, create the file on a first run.
startup(fs) ==
    LET loaded == from_file(fs, config_file_path)
    IN [config |-> loaded,
        files |-> IF Exists(fs, config_file_path) THEN fs
                  ELSE save_to_file(loaded, fs, config_file_path)]

\* SubCommand::List: the lines printed.
list_request(vm_list) ==
    [i \in 1..Len(list(vm_list)) |->
        [name |-> list(vm_list)[i].name, path |-> list(vm_list)[i].path]]

\* SubCommand::Add
add_request(cfg, fs, name, path) ==
    LET added == [cfg EXCEPT !.vm_list = add(cfg.vm_list, name, path).map]
    IN [config |-> added,
        files |-> save_to_file(added, fs, config_file_path),
        status |-> ExitOk]

\* SubCommand::Remove. The force flag is bound by the pattern and not read.
remove_request(cfg, fs, name, force, stdin) ==
    LET found == get_info(cfg.vm_list, name)
        m == IF found.some
             THEN IF stdin # <<>>
                  THEN Some([info |-> found.val, does_remove |-> does_remove(Head(stdin))])
                  ELSE Some([info |-> found.val, does_remove |-> FALSE])
             ELSE None
        removing == m.some /\ m.val.does_remove
        removed == IF removing
                   THEN [cfg EXCEPT !.vm_list = remove(cfg.vm_list, m.val.info.name).map]
                   ELSE cfg
    IN [config |-> removed,
        files |-> IF removing THEN save_to_file(removed, fs, config_file_path) ELSE fs,
        found |-> found.some,
        prompted |-> found.some,
        consumed |-> IF found.some /\ stdin # <<>> THEN 1 ELSE 0,
        wrote |-> removing,
        status |-> ExitOk]

\* chrono format "%Y%m%h-%H%M%S": year, month number, month name, time of
\* day. The year is fixed in this model; the day of the month is not part
\* of the format.
format_backup_name(t) == <<"config.toml", t.month, t.month, t.hms>>

\* Vm::backup_config_file: std::fs::copy(config_file_path, path). The path
\* handed over is a bare file name, which the operating system resolves
\* against the working directory wd; an existing destination is replaced.
backup_config_file(fs, wd, path) ==
    LET dest == [dir |-> wd, name |-> path]
    IN IF Exists(fs, config_file_path)
       THEN [files |-> WriteFile(fs, dest, fs[config_file_path]), ok |-> TRUE, dest |-> dest]
       ELSE [files |-> fs, ok |-> FALSE, dest |-> dest]

\* SubCommand::BackupConfigFile
backup_request(fs, wd, t) ==
    LET backup_name == format_backup_name(t)
        r == backup_config_file(fs, wd, backup_name)
    IN [files |-> r.files,
        dest |-> r.dest,
        prior |-> IF Exists(fs, r.dest) THEN Some(fs[r.dest]) ELSE None,
        status |-> IF r.ok THEN ExitOk ELSE ExitFailure]

\* ExitStatus::code
code(outcome) == IF outcome.kind = "exited" THEN Some(outcome.code) ELSE None

\* Variant: an unknown name ends with the success status.
raw_not_found_ok(wd) ==
    [found |-> FALSE, cwd |-> wd, spawned |-> FALSE, status |-> ExitOk]

\* The else arm of SubCommand::Raw: the name is not in vm_list.
raw_not_found(wd) ==
    [found |-> FALSE, cwd |-> wd, spawned |-> FALSE, status |-> ExitNotFound]

\* SubCommand::Raw
raw_request(cfg, wd, vm_name, outcome) ==
    LET found == get_info(cfg.vm_list, vm_name)
        target == Resolve(wd, found.val.path)
    IN IF found.some
       THEN IF target \notin ExistingDirs
            THEN [found |-> TRUE, cwd |-> wd, spawned |-> FALSE, status |-> ExitFailure]
            ELSE IF outcome.kind = "spawn_error"
            THEN [found |-> TRUE, cwd |-> target, spawned |-> FALSE, status |-> ExitFailure]
            ELSE [found |-> TRUE, cwd |-> target, spawned |-> TRUE,
                  status |-> IF code(outcome).some THEN code(outcome).val
                             ELSE NoCodeFallback]
       ELSE raw_not_found(wd)

BackupFiles(fs) == { p \in DOMAIN fs : p # config_file_path }

\* ------------------------------------------------- one process invocation
\* Each action is main -> run -> run_vagrant for one parsed request, by a
\* process started in launch_dir. (st and r are bound by \E over a
\* singleton so that each is computed once per step.)
MainArgsError ==
    /\ cwd' = launch_dir
    /\ last' = [op |-> "ArgsError", status |-> ExitUsage]
    /\ UNCHANGED <<config, files, launch_dir, now>>

RunList ==
    \E st \in { startup(files) } :
       /\ config' = st.config
       /\ files' = st.files
       /\ cwd' = launch_dir
       /\ last' = [op |-> "List", out |-> list_request(st.config.vm_list),
                   status |-> ExitOk]
       /\ UNCHANGED <<launch_dir, now>>

RunAdd(name, path) ==
    \E st \in { startup(files) } :
    \E r \in { add_request(st.config, st.files, name, path) } :
       /\ config' = r.config
       /\ files' = r.files
       /\ cwd' = launch_dir
       /\ last' = [op |-> "Add", name |-> name, path |-> path, status |-> r.status]
       /\ UNCHANGED <<launch_dir, now>>

RunRemove(name, force, stdin) ==
    \E st \in { startup(files) } :
    \E r \in { remove_request(st.config, st.files, name, force, stdin) } :
       /\ config' = r.config
       /\ files' = r.files
       /\ cwd' = launch_dir
       /\ last' = [op |-> "Remove", name |-> name, force |-> force, stdin |-> stdin,
                   found |-> r.found, prompted |-> r.prompted,
                   consumed |-> r.consumed, wrote |-> r.wrote, status |-> r.status]
       /\ UNCHANGED <<launch_dir, now>>

RunBackupConfigFile(t) ==
    \E st \in { startup(files) } :
    \E r \in { backup_request(st.files, launch_dir, t) } :
       /\ TimeLeq(now, t)
       /\ Cardinality(BackupFiles(r.files)) <= MaxBackups
       /\ config' = st.config
       /\ files' = r.files
       /\ cwd' = launch_dir
       /\ now' = t
       /\ last' = [op |-> "BackupConfigFile", time |-> t,
                   dest |-> r.dest, prior |-> r.prior, status |-> r.status]
       /\ UNCHANGED launch_dir

RunRaw(vm_name, outcome) ==
    \E st \in { startup(files) } :
    \E r \in { raw_request(st.config, launch_dir, vm_name, outcome) } :
       /\ config' = st.config
       /\ files' = st.files
       /\ cwd' = r.cwd
       /\ last' = [op |-> "Raw", name |-> vm_name, found |-> r.found,
                   spawned |-> r.spawned,
                   child |-> IF r.spawned THEN outcome ELSE [kind |-> "none"],
                   status |-> r.status]
       /\ UNCHANGED <<launch_dir, now>>

Next ==
    \/ \E name \in Names, path \in Paths : VmAdd(name, path)
    \/ \E name \in Names : VmRemove(name)
    \/ VmSave
    \/ MainArgsError
    \/ RunList
    \/ \E name \in Names, path \in Paths : RunAdd(name, path)
    \/ \E name \in Names, force \in BOOLEAN, stdin \in Streams :
          RunRemove(name, force, stdin)
    \/ \E vm_name \in Names, outcome \in ChildOutcomes : RunRaw(vm_name, outcome)

Spec == Init /\ [][Next]_vars

NextBackup ==
    \/ \E name \in Names, path \in Paths : RunAdd(name, path)
    \/ \E t \in Times : RunBackupConfigFile(t)

SpecBackup == Init /\ [][NextBackup]_vars

\* ------------------------------------------------------------- properties
\* The entry registered under a key, found by scanning the pairs.
EntryOf(m, k) ==
    IF \E i \in 1..Len(m) : m[i].key = k
    THEN Some(m[CHOOSE i \in 1..Len(m) : m[i].key = k].value)
    ELSE None

\* The registry a process loads, and the files it finds once run() has
\* made sure the registry file exists.
Loaded == from_file(files, config_file_path)
AtDispatch == startup(files).files

YesBytes == { 89, 121 }

\* C1: after Vm::add or the Add request, every stored entry path is
\* absolute, whatever path was supplied.
C1_StoredPathsAbsolute ==
    \A i \in 1..Len(config.vm_list) : config.vm_list[i].value.path.abs

\* C2: a Remove request with force set, for a registered name, removes the
\* entry and persists the registry without prompting or reading input.
C2_ForceSkipsPrompt ==
    (last.op = "Remove" /\ last.force /\ last.found)
        => /\ ~last.prompted
           /\ last.consumed = 0
           /\ EntryOf(config.vm_list, last.name) = None
           /\ files[config_file_path] = to_toml(config)

\* C3: a Remove request without force, for a registered name, consults one
\* byte of input and removes and persists exactly when that byte is 'y' or
\* 'Y'; otherwise (another byte, or a closed stream) the entry stays, the
\* registry file is not written, and the exit status is success.
C3_ConfirmedRemove ==
    [][ (last'.op = "Remove" /\ ~last'.force
            /\ EntryOf(Loaded.vm_list, last'.name) # None)
        => LET yes == last'.stdin # <<>> /\ Head(last'.stdin) \in YesBytes
           IN /\ last'.consumed = (IF last'.stdin = <<>> THEN 0 ELSE 1)
              /\ last'.status = ExitOk
              /\ yes => /\ EntryOf(config'.vm_list, last'.name) = None
                        /\ files'[config_file_path] = to_toml(config')
                        /\ \A t \in files'[config_file_path].vm_list :
                              t.key # last'.name
              /\ ~yes => /\ EntryOf(config'.vm_list, last'.name)
                              = EntryOf(Loaded.vm_list, last'.name)
                         /\ ~last'.wrote
                         /\ files' = files ]_vars

C3_Witness ==
    /\ last.op = "Remove" /\ ~last.force /\ last.found
    /\ last.stdin = <<89, 110>>
    /\ EntryOf(config.vm_list, last.name) = None
    /\ Len(config.vm_list) = 1

\* C4: when the external process was run, the exit status is its exit code
\* if it has one, and non-zero if it has none.
C4_ForwardedStatus ==
    (last.op = "Raw" /\ last.spawned)
        => IF last.child.kind = "exited"
           THEN last.status = last.child.code
           ELSE last.status # 0

C6_BackupBesideRegistry ==
    (last.op = "BackupConfigFile" /\ last.status = ExitOk)
        => /\ last.dest.dir = config_file_path.dir
           /\ Exists(files, last.dest)
           /\ files[last.dest] = files[config_file_path]

\* C7: a backup request whose derived file name already exists fails and
\* leaves the existing file as it was.
C7_BackupNeverOverwrites ==
    (last.op = "BackupConfigFile" /\ last.prior.some)
        => /\ last.status # ExitOk
           /\ files[last.dest] = last.prior.val

\* C8: Vm::add returns the entry the name held before (none if it held
\* none), afterwards the name holds the new entry, and no other entry
\* changes.
C8_AddReturnsPrior ==
    [][ last'.op = "Vm::add"
        => /\ last'.ret = EntryOf(config.vm_list, last'.name)
           /\ EntryOf(config'.vm_list, last'.name)
                 = Some([name |-> last'.name, path |-> last'.path])
           /\ \A n \in Names \ {last'.name} :
                 EntryOf(config'.vm_list, n) = EntryOf(config.vm_list, n)
           /\ Len(config'.vm_list)
                 = Len(config.vm_list) + (IF last'.ret.some THEN 0 ELSE 1) ]_vars

C8_Witness ==
    /\ last.op = "Vm::add"
    /\ last.ret = Some([name |-> last.name, path |-> AbsW])
    /\ last.path = RelW
    /\ Len(config.vm_list) = 2

C10_ListSortedByName ==
    LET l == list(config.vm_list)
    IN /\ \A i, j \in 1..Len(l) : i < j => StrLess(l[i].name, l[j].name)
       /\ \A i \in 1..Len(config.vm_list) :
             config.vm_list[i].key = config.vm_list[i].value.name
       /\ \A i \in 1..Len(l) : EntryOf(config.vm_list, l[i].name) = Some(l[i])
       /\ \A n \in Names :
             EntryOf(config.vm_list, n) # None => \E i \in 1..Len(l) : l[i].name = n
       /\ last.op = "List" =>
             \A i, j \in 1..Len(last.out) :
                i < j => StrLess(last.out[i].name, last.out[j].name)

C10_Witness ==
    /\ last.op = "Vm::add"
    /\ last.name = <<97, 98>>
    /\ last.ret = None
    /\ Len(list(config.vm_list)) = 2
====
